---- MODULE Spec2Model ----
(***************************************************************************)
(* Model of blocks/mycard/mycard.js: the content block that fetches a      *)
(* payload for a block identifier, renders it into three DOM targets and   *)
(* shows a transient notification when the button is clicked.              *)
(*                                                                         *)
(* JavaScript strings are sequences of chunks (a literal is one chunk, a   *)
(* concatenation is \o), so that "contains" is decidable; a JavaScript     *)
(* value is a record [t, s] with t in {"undefined", "null", "string"}.     *)
(***************************************************************************)
EXTENDS Integers, Sequences, FiniteSets, TLC

VARIABLES page, titleText, descText, nodes, overlays, location,
          pc, fetch, errors, renderCalls, lastRender

vars == <<page, titleText, descText, nodes, overlays, location,
          pc, fetch, errors, renderCalls, lastRender>>

\* ---------------------------------------------------------------- bounds
MaxRenders == 3
MaxOverlays == 2

\* ------------------------------------------------------ JavaScript values
Undefined == [t |-> "undefined", s |-> <<>>]
Null == [t |-> "null", s |-> <<>>]
Str(chunks) == [t |-> "string", s |-> chunks]
Lit(x) == Str(<<x>>)
EmptyString == Str(<<>>)

\* if (v), v || w: undefined, null and "" are falsy
Truthy(v) == v.t = "string" /\ v.s # <<>>

\* x occurs in text as a contiguous run of chunks
Contains(text, x) ==
  \E i \in 0..(Len(text) - Len(x)) : SubSeq(text, i + 1, i + Len(x)) = x

Payload(ti, de, bt, bl) ==
  [title |-> ti, description |-> de, buttonText |-> bt, buttonLink |-> bl]

\* an object none of whose payload properties is set
NoData == Payload(Undefined, Undefined, Undefined, Undefined)

\* ------------------------------------------------------------ timer delays
FadeInDelay == 10
DisplayDuration == 2000

\* ----------------------------------------------------------- content source
mockContentData ==
  [k \in {"homepage-hero-block", "about-us-intro-block",
          "contact-promo-block", "no-button-info-block"} |->
    CASE k = "homepage-hero-block" ->
           Payload(Lit("Accelerate Your Digital Experience"),
                   Lit("Leverage Adobe EDS components for rapid development and consistent brand presence across all your digital touchpoints. From design to deployment, streamline your workflow."),
                   Lit("Discover Our Components"), Lit("/components"))
      [] k = "about-us-intro-block" ->
           Payload(Lit("Our Story: Innovation at Core"),
                   Lit("Learn about our journey in pioneering digital solutions that empower businesses worldwide. We believe in crafting exceptional user experiences and solutions."),
                   Lit("Meet the Team"), Lit("/about"))
      [] k = "contact-promo-block" ->
           Payload(Lit("Ready to Transform?"),
                   Lit("Connect with our experts to discuss how our EDS can elevate your digital strategy. We're here to help you succeed, every step of the way."),
                   Lit("Contact Us Today"), Lit("/contact"))
      [] k = "no-button-info-block" ->
           Payload(Lit("Important Update"),
                   Lit("This content block provides vital updates and does not require a call-to-action button, focusing purely on conveying information."),
                   Undefined, Undefined)]

\* mockContentData is an object literal: a property read that misses the own
\* keys continues along the prototype chain to Object.prototype
ObjectPrototypeKeys == {"constructor", "toString", "__proto__"}

\* mockContentData[blockId]: [found |-> the value is truthy, value |-> it]
PropertyLookup(blockId) ==
  LET key == blockId.s[1] IN
  IF key \in DOMAIN mockContentData
    THEN [found |-> TRUE, value |-> mockContentData[key]]
  ELSE IF key \in ObjectPrototypeKeys
    THEN [found |-> TRUE, value |-> NoData]
  ELSE [found |-> FALSE, value |-> NoData]

FallbackDescription ==
  Lit("The content for this specific block could not be loaded. Please verify the block ID and content source configuration.")

FallbackPayload(blockId) ==
  Payload(Str(<<"Content Not Found (ID: ">> \o blockId.s \o <<")">>),
          FallbackDescription, Null, Undefined)

ResolveData_OnlyFallback(blockId) ==
  IF PropertyLookup(blockId).found
    THEN FallbackPayload(blockId)
    ELSE PropertyLookup(blockId).value

\* const data = mockContentData[blockId] || { ...fallback... }
ResolveData(blockId) ==
  IF PropertyLookup(blockId).found
    THEN PropertyLookup(blockId).value
    ELSE FallbackPayload(blockId)

SettleState_RejectOnMiss(blockId) ==
  IF PropertyLookup(blockId).found THEN "resolved" ELSE "rejected"

\* the executor only ever calls resolve(data)
SettleState(blockId) == "resolved"

\* ---------------------------------------------------------- render targets
DefaultTitle == <<"Default Component Title">>
DefaultDescription == <<"Default description text for the component.">>
DefaultBlockId == Lit("homepage-hero-block")

ErrorPayload ==
  Payload(Lit("Error Loading Content"),
          Lit("An unexpected error occurred while fetching the content for this block. Please contact support."),
          Null, Undefined)

\* getElementById results captured once by the DOMContentLoaded handler;
\* 0 is null, i > 0 is the button node nodes[i]
blockTitleElement == page.title
blockDescriptionElement == page.description
blockButtonElement == IF page.button THEN 1 ELSE 0

\* the button node that is in the document (what the user sees and clicks)
DocButton ==
  IF \E i \in 1..Len(nodes) : nodes[i].parent
    THEN CHOOSE i \in 1..Len(nodes) : nodes[i].parent
    ELSE 0

cloneNode_Shallow(n) ==
  [text |-> <<>>, display |-> n.display, handlers |-> <<>>, parent |-> FALSE]

\* cloneNode(true): attributes, inline style and text are copied, listeners
\* are not, and the copy has no parent
cloneNode(n) ==
  [text |-> n.text, display |-> n.display, handlers |-> <<>>, parent |-> FALSE]

\* blockButtonElement.parentNode is null, so .replaceChild raises TypeError
RenderThrows(data) ==
  /\ blockButtonElement # 0
  /\ Truthy(data.buttonText)
  /\ ~nodes[blockButtonElement].parent

TitleAfterRender_KeepsEmpty(data) ==
  IF blockTitleElement /\ data.title.t = "string" THEN data.title.s
  ELSE IF blockTitleElement THEN DefaultTitle ELSE titleText

TitleAfterRender(data) ==
  IF blockTitleElement /\ Truthy(data.title) THEN data.title.s
  ELSE IF blockTitleElement THEN DefaultTitle ELSE titleText

DescriptionAfterRender(data) ==
  IF blockDescriptionElement /\ Truthy(data.description) THEN data.description.s
  ELSE IF blockDescriptionElement THEN DefaultDescription ELSE descText

WarningsOfRender(data) ==
  (IF blockTitleElement /\ Truthy(data.title) THEN {} ELSE {"title"})
    \cup (IF blockDescriptionElement /\ Truthy(data.description)
            THEN {} ELSE {"description"})

ButtonsAfterRender_NoClone(data) ==
  LET b == blockButtonElement
  IN IF b = 0 THEN nodes
     ELSE IF Truthy(data.buttonText)
       THEN [nodes EXCEPT ![b].text = data.buttonText.s,
                          ![b].display = "block",
                          ![b].handlers = Append(@, data)]
       ELSE [nodes EXCEPT ![b].display = "none"]

ButtonsAfterRender_CloneOnHide(data) ==
  LET b == blockButtonElement
      shown == [nodes EXCEPT ![b].text = data.buttonText.s,
                             ![b].display = "block"]
      hidden == [nodes EXCEPT ![b].display = "none"]
  IN IF b = 0 THEN nodes
     ELSE IF Truthy(data.buttonText)
       THEN IF shown[b].parent
              THEN Append([shown EXCEPT ![b].parent = FALSE],
                          [cloneNode(shown[b]) EXCEPT !.parent = TRUE,
                                                      !.handlers = <<data>>])
              ELSE shown
       ELSE IF hidden[b].parent
              THEN Append([hidden EXCEPT ![b].parent = FALSE],
                          [cloneNode(hidden[b]) EXCEPT !.parent = TRUE])
              ELSE hidden

ButtonsAfterRender(data) ==
  LET b == blockButtonElement
      shown == [nodes EXCEPT ![b].text = data.buttonText.s,
                             ![b].display = "block"]
      newButton == cloneNode(shown[b])
  IN IF b = 0 THEN nodes
     ELSE IF Truthy(data.buttonText)
       THEN IF shown[b].parent
              THEN Append([shown EXCEPT ![b].parent = FALSE],
                          [newButton EXCEPT !.parent = TRUE,
                                            !.handlers = <<data>>])
              ELSE shown
       ELSE [nodes EXCEPT ![b].display = "none"]

renderContentBlock(data) ==
  /\ titleText' = TitleAfterRender(data)
  /\ descText' = DescriptionAfterRender(data)
  /\ nodes' = ButtonsAfterRender(data)
  /\ renderCalls' = renderCalls + 1
  /\ lastRender' = [data |-> data, threw |-> RenderThrows(data),
                    warned |-> WarningsOfRender(data)]

\* ------------------------------------------------------------ notification
Message(data) == <<"Action: \"">> \o data.buttonText.s \o <<"\" clicked!">>

ClickHandler_Navigates(data, loc) ==
  [location |-> IF Truthy(data.buttonLink) THEN data.buttonLink.s ELSE loc,
   message |-> Message(data)]

\* the listener added by renderContentBlock: navigation is only logged
ClickHandler(data, loc) ==
  [location |-> loc, message |-> Message(data)]

\* the messageBox showTemporaryMessage creates, with its two timers armed
NewOverlay(message) ==
  [text |-> message, opacity |-> 0, attached |-> TRUE,
   fadeIn |-> TRUE, fadeOut |-> TRUE, listeners |-> 0, transition |-> "none"]

\* what one click on the button in the document does, listener by listener
RECURSIVE DispatchClick(_, _)
DispatchClick(handlers, st) ==
  IF handlers = <<>> THEN st
  ELSE LET r == ClickHandler(Head(handlers), st.location)
       IN DispatchClick(Tail(handlers),
            [location |-> r.location,
             overlays |-> Append(st.overlays, NewOverlay(r.message))])

ClickResult ==
  IF DocButton = 0 THEN [location |-> location, overlays |-> overlays]
  ELSE DispatchClick(nodes[DocButton].handlers,
                     [location |-> location, overlays |-> overlays])

\* ------------------------------------------------------------------- state
BlockIdAttributes ==
  {Undefined, EmptyString, Lit("homepage-hero-block"),
   Lit("about-us-intro-block"), Lit("contact-promo-block"),
   Lit("no-button-info-block"), Lit("unknown-block"), Lit("constructor")}

FreshButton ==
  [text |-> <<>>, display |-> "", handlers |-> <<>>, parent |-> TRUE]

FreshDom ==
  /\ titleText = <<>>
  /\ descText = <<>>
  /\ nodes = IF page.button THEN <<FreshButton>> ELSE <<>>
  /\ overlays = <<>>
  /\ location = <<"/">>
  /\ fetch = [calls |-> 0, timer |-> FALSE, state |-> "none",
              value |-> NoData, settles |-> 0, blockId |-> Undefined]
  /\ errors = {}
  /\ renderCalls = 0
  /\ lastRender = [data |-> NoData, threw |-> FALSE, warned |-> {}]

Init ==
  /\ page \in [container : BOOLEAN, attr : BlockIdAttributes,
               title : BOOLEAN, description : BOOLEAN, button : BOOLEAN]
  /\ ~page.container => page.attr = Undefined
  /\ FreshDom
  /\ pc = "loading"

\* no promise reaction is queued: the next task (timer, click) may run
MicrotasksDone == pc \notin {"settled", "rejected"}

\* ---------------------------------------------------------- initialization
ContainerFound_Always == TRUE

\* if (mainContentBlockContainer)
ContainerFound == page.container

blockId_IgnoresAttribute == DefaultBlockId

\* mainContentBlockContainer.dataset.blockId || 'homepage-hero-block'
blockId == IF Truthy(page.attr) THEN page.attr ELSE DefaultBlockId

DOMContentLoaded ==
  /\ pc = "loading"
  /\ IF ContainerFound
       THEN /\ fetch' = [fetch EXCEPT !.calls = @ + 1, !.timer = TRUE,
                                      !.state = "pending", !.blockId = blockId]
            /\ pc' = "fetching"
            /\ errors' = errors
       ELSE /\ errors' = errors \cup {"container"}
            /\ pc' = "stopped"
            /\ fetch' = fetch
  /\ UNCHANGED <<page, titleText, descText, nodes, overlays, location,
                 renderCalls, lastRender>>

\* the setTimeout callback of fetchContentForBlock
FetchTimer ==
  /\ fetch.timer
  /\ MicrotasksDone
  /\ fetch' = [fetch EXCEPT !.timer = FALSE,
                            !.state = SettleState(fetch.blockId),
                            !.value = ResolveData(fetch.blockId),
                            !.settles = @ + 1]
  /\ pc' = IF SettleState(fetch.blockId) = "resolved"
             THEN "settled" ELSE "rejected"
  /\ UNCHANGED <<page, titleText, descText, nodes, overlays, location,
                 errors, renderCalls, lastRender>>

ReactionReady_NotAwaited == pc \in {"fetching", "settled", "rejected"}

\* a reaction of the .then(...).catch(...) chain runs once its promise settled
ReactionReady == pc \in {"settled", "rejected"}

ChainNext_CatchAlways(p, threw) == IF p = "settled" THEN "rejected" ELSE "done"

\* .then(f).catch(g): g runs when the fetch rejected or when f threw
ChainNext(p, threw) == IF p = "settled" /\ threw THEN "rejected" ELSE "done"

Reaction ==
  /\ ReactionReady
  /\ LET data == IF pc = "rejected" THEN ErrorPayload ELSE fetch.value
     IN /\ renderContentBlock(data)
        /\ pc' = ChainNext(pc, RenderThrows(data))
  /\ errors' = IF pc = "rejected" THEN errors \cup {"fetch"} ELSE errors
  /\ UNCHANGED <<page, overlays, location, fetch>>

\* ------------------------------------------------------------ user and timers
Click ==
  /\ MicrotasksDone
  /\ DocButton # 0
  /\ Len(ClickResult.overlays) <= MaxOverlays
  /\ overlays' = ClickResult.overlays
  /\ location' = ClickResult.location
  /\ UNCHANGED <<page, titleText, descText, nodes, pc, fetch, errors,
                 renderCalls, lastRender>>

\* setTimeout(..., 10): timers of equal delay fire in the order they were set
FadeIn(i) ==
  /\ MicrotasksDone
  /\ overlays[i].fadeIn
  /\ \A j \in 1..(i - 1) : ~overlays[j].fadeIn
  /\ overlays' = [overlays EXCEPT ![i].fadeIn = FALSE, ![i].opacity = 1,
                                  ![i].transition = "in"]
  /\ UNCHANGED <<page, titleText, descText, nodes, location, pc, fetch,
                 errors, renderCalls, lastRender>>

FadeOut_NoListener(i) ==
  /\ MicrotasksDone
  /\ overlays[i].fadeOut
  /\ FadeInDelay < DisplayDuration => ~overlays[i].fadeIn
  /\ \A j \in 1..(i - 1) : ~overlays[j].fadeOut
  /\ overlays' = [overlays EXCEPT ![i].fadeOut = FALSE, ![i].opacity = 0,
                                  ![i].transition = "out"]
  /\ UNCHANGED <<page, titleText, descText, nodes, location, pc, fetch,
                 errors, renderCalls, lastRender>>

FadeOut_SharedBox(i) ==
  /\ MicrotasksDone
  /\ overlays[i].fadeOut
  /\ FadeInDelay < DisplayDuration => ~overlays[i].fadeIn
  /\ \A j \in 1..(i - 1) : ~overlays[j].fadeOut
  /\ overlays' = [overlays EXCEPT ![i].fadeOut = FALSE,
                                  ![Len(overlays)].opacity = 0,
                                  ![Len(overlays)].listeners = @ + 1,
                                  ![Len(overlays)].transition = "out"]
  /\ UNCHANGED <<page, titleText, descText, nodes, location, pc, fetch,
                 errors, renderCalls, lastRender>>

\* setTimeout(..., 2000): set with the 10ms timer, so it fires after it
FadeOut(i) ==
  /\ MicrotasksDone
  /\ overlays[i].fadeOut
  /\ FadeInDelay < DisplayDuration => ~overlays[i].fadeIn
  /\ \A j \in 1..(i - 1) : ~overlays[j].fadeOut
  /\ overlays' = [overlays EXCEPT ![i].fadeOut = FALSE, ![i].opacity = 0,
                                  ![i].listeners = @ + 1,
                                  ![i].transition = "out"]
  /\ UNCHANGED <<page, titleText, descText, nodes, location, pc, fetch,
                 errors, renderCalls, lastRender>>

TransitionEnd_AlwaysRemoves(i) ==
  /\ MicrotasksDone
  /\ overlays[i].transition # "none"
  /\ overlays' = [overlays EXCEPT ![i].transition = "none",
                                  ![i].attached = FALSE]
  /\ UNCHANGED <<page, titleText, descText, nodes, location, pc, fetch,
                 errors, renderCalls, lastRender>>

\* the browser delivers transitionend when the opacity transition completes
TransitionEnd(i) ==
  /\ MicrotasksDone
  /\ overlays[i].transition # "none"
  /\ overlays' = [overlays EXCEPT
                    ![i].transition = "none",
                    ![i].attached = IF overlays[i].listeners > 0
                                      THEN FALSE ELSE @]
  /\ UNCHANGED <<page, titleText, descText, nodes, location, pc, fetch,
                 errors, renderCalls, lastRender>>

Next ==
  \/ DOMContentLoaded
  \/ FetchTimer
  \/ Reaction
  \/ Click
  \/ \E i \in 1..Len(overlays) : FadeIn(i)
  \/ \E i \in 1..Len(overlays) : FadeOut(i)
  \/ \E i \in 1..Len(overlays) : TransitionEnd(i)

Spec == Init /\ [][Next]_vars

\* timers that were set do fire
FairSpec == Spec /\ WF_vars(FetchTimer)

\* every timer that was set fires, and a running transition completes
FairOverlaySpec ==
  /\ Spec
  /\ WF_vars(FetchTimer)
  /\ \A i \in 1..MaxOverlays :
       /\ WF_vars(i <= Len(overlays) /\ FadeIn(i))
       /\ WF_vars(i <= Len(overlays) /\ FadeOut(i))
       /\ WF_vars(i <= Len(overlays) /\ TransitionEnd(i))

\* ------------------------------------------------- repeated calls of render
RenderTitles == {Undefined, EmptyString, Lit("T")}
RenderDescriptions == {Undefined, Lit("D")}
RenderButtonTexts == {Undefined, Null, EmptyString, Lit("B1"), Lit("B2")}
RenderButtonLinks == {Undefined, Lit("/a")}

RenderPayloads ==
  {Payload(ti, de, bt, bl) : ti \in RenderTitles, de \in RenderDescriptions,
                             bt \in RenderButtonTexts, bl \in RenderButtonLinks}

InitRender ==
  /\ page \in [container : {TRUE}, attr : {Undefined},
               title : BOOLEAN, description : BOOLEAN, button : BOOLEAN]
  /\ FreshDom
  /\ pc = "idle"

\* a caller (a test, an authoring preview) invokes renderContentBlock
RenderCall(data) ==
  /\ renderCalls < MaxRenders
  /\ renderContentBlock(data)
  /\ UNCHANGED <<page, overlays, location, pc, fetch, errors>>

NextRender ==
  \/ \E data \in RenderPayloads : RenderCall(data)
  \/ Click

SpecRender == InitRender /\ [][NextRender]_vars

\* ------------------------------------------------------------------ claims
AllTargets == page.title /\ page.description /\ page.button

\* the texts of the notifications one click on the displayed button creates
ClickTexts ==
  [i \in 1..(Len(ClickResult.overlays) - Len(overlays)) |->
     ClickResult.overlays[Len(overlays) + i].text]

\* C1: when a render with a non-empty buttonText is directly followed by a
\* render with a different non-empty buttonText, a click on the button in the
\* document then produces exactly one notification, the one naming the second
\* call's buttonText.
C1_SecondRenderOwnsClick ==
  [][(/\ page.button
      /\ renderCalls >= 1
      /\ renderCalls' = renderCalls + 1
      /\ Truthy(lastRender.data.buttonText)
      /\ Truthy(lastRender'.data.buttonText)
      /\ lastRender'.data.buttonText # lastRender.data.buttonText)
     => ClickTexts' = <<Message(lastRender'.data)>>]_vars

\* C2: on a page with all three targets, no call in any sequence of render
\* calls raises an error.
C2_RenderNeverThrows == AllTargets => ~lastRender.threw

\* C3: after any earlier calls, a render with title T, description D and no
\* buttonText leaves title text T, description text D and the button in the
\* document hidden.
C3_RenderWithoutButtonHides ==
  (/\ AllTargets
   /\ renderCalls >= 1
   /\ Truthy(lastRender.data.title)
   /\ Truthy(lastRender.data.description)
   /\ lastRender.data.buttonText = Undefined)
  => /\ titleText = lastRender.data.title.s
     /\ descText = lastRender.data.description.s
     /\ nodes[DocButton].display = "none"

\* C4: with the container present the fetch is started once and render is
\* invoked exactly once by initialization: with the fetched payload when the
\* fetch resolved, with the error payload when it rejected, never both.
C4_InitRendersExactlyOnce ==
  page.container =>
    /\ fetch.calls <= 1
    /\ renderCalls <= 1
    /\ pc = "done" =>
         /\ renderCalls = 1
         /\ ~lastRender.threw
         /\ fetch.calls = 1
         /\ \/ /\ fetch.state = "resolved"
               /\ lastRender.data = fetch.value
               /\ "fetch" \notin errors
            \/ /\ fetch.state = "rejected"
               /\ lastRender.data = ErrorPayload

C4_Witness ==
  /\ page.container
  /\ pc = "done"
  /\ renderCalls = 1
  /\ fetch.state = "resolved"
  /\ lastRender.data = fetch.value
  /\ Truthy(lastRender.data.buttonText)

\* C5: while the fetch has not settled, render has not run and no render
\* target has been touched.
C5_NoRenderWhilePending ==
  fetch.state \in {"none", "pending"} =>
    /\ renderCalls = 0
    /\ titleText = <<>>
    /\ descText = <<>>
    /\ nodes = IF page.button THEN <<FreshButton>> ELSE <<>>

C5_Witness ==
  /\ pc = "fetching"
  /\ fetch.state = "pending"
  /\ fetch.timer
  /\ AllTargets

\* C6: with the container absent, initialization logs an error and stops:
\* the content source and render are never invoked and no target changes.
C6_MissingContainerStops ==
  (~page.container /\ pc # "loading") =>
    /\ pc = "stopped"
    /\ "container" \in errors
    /\ fetch.calls = 0
    /\ fetch.state = "none"
    /\ ~fetch.timer
    /\ renderCalls = 0
    /\ titleText = <<>>
    /\ descText = <<>>
    /\ nodes = IF page.button THEN <<FreshButton>> ELSE <<>>

C6_Witness ==
  /\ ~page.container
  /\ pc = "stopped"
  /\ AllTargets
  /\ "container" \in errors

\* C7: for a key of the mapping the promise is pending until the delay timer
\* has fired and then holds exactly that entry.
C7_KnownIdResolvesToEntry ==
  (fetch.calls > 0 /\ fetch.blockId.s[1] \in DOMAIN mockContentData) =>
    /\ fetch.timer => (fetch.state = "pending" /\ fetch.settles = 0)
    /\ ~fetch.timer =>
         /\ fetch.state = "resolved"
         /\ fetch.value = mockContentData[fetch.blockId.s[1]]

C7_Witness ==
  /\ fetch.state = "resolved"
  /\ fetch.blockId = Lit("about-us-intro-block")
  /\ fetch.value.buttonText = Lit("Meet the Team")

\* C8: for an identifier X that is not a key of the mapping the promise
\* resolves to the fallback payload: title containing X, the could-not-be-
\* loaded description, no buttonText and no buttonLink.
C8_UnknownIdResolvesToFallback ==
  (fetch.state = "resolved" /\ fetch.blockId.s[1] \notin DOMAIN mockContentData) =>
    /\ fetch.value.title.t = "string"
    /\ Contains(fetch.value.title.s, fetch.blockId.s)
    /\ fetch.value.description = FallbackDescription
    /\ ~Truthy(fetch.value.buttonText)
    /\ ~Truthy(fetch.value.buttonLink)

\* C9: the promise of fetchContentForBlock never rejects; once pending it
\* settles, exactly once, as resolved, and stays as it settled.
C9_FetchAlwaysResolvesOnce ==
  /\ [](fetch.state # "rejected" /\ fetch.settles <= 1)
  /\ [](fetch.state = "resolved" <=> fetch.settles = 1)
  /\ [][fetch.state = "resolved" =>
          (fetch'.state = "resolved" /\ fetch'.value = fetch.value)]_vars
  /\ (fetch.state = "pending") ~> (fetch.state = "resolved")

C9_Witness ==
  /\ fetch.state = "resolved"
  /\ fetch.settles = 1
  /\ ~fetch.timer
  /\ fetch.blockId = Lit("unknown-block")

\* C10: no step changes the page location; the listener a render installs is
\* bound to that render's payload, and every click on a button carrying it
\* adds one notification whose text contains that payload's buttonText.
C10_ClickNotifiesWithoutNavigating ==
  [][/\ location' = location
     /\ Len(nodes') > Len(nodes) =>
          nodes'[Len(nodes')].handlers = <<lastRender'.data>>
     /\ (Click /\ nodes[DocButton].handlers # <<>>) =>
          /\ Len(overlays') = Len(overlays) + 1
          /\ overlays'[Len(overlays')].attached
          /\ Truthy(nodes[DocButton].handlers[1].buttonText)
          /\ Contains(overlays'[Len(overlays')].text,
                      nodes[DocButton].handlers[1].buttonText.s)]_vars

C10_Witness ==
  /\ Len(overlays) = 2
  /\ location = <<"/">>
  /\ overlays[1].text = Message(Payload(Lit("T"), Lit("D"), Lit("B1"), Lit("/a")))
  /\ overlays[2].text = overlays[1].text
  /\ nodes[DocButton].handlers[1].buttonLink = Lit("/a")

\* C11: after any sequence of render calls the button in the document carries
\* at most one click listener, exactly one once a render supplied a
\* buttonText, so one click never creates more than one notification.
C11_AtMostOneHandler ==
  DocButton # 0 =>
    /\ Len(nodes[DocButton].handlers) <= 1
    /\ Len(ClickTexts) <= 1
    /\ (renderCalls >= 1 /\ Truthy(lastRender.data.buttonText)) =>
         (Len(nodes[DocButton].handlers) = 1 /\ Len(ClickTexts) = 1)

C11_Witness ==
  /\ renderCalls = 3
  /\ Truthy(lastRender.data.buttonText)
  /\ Len(nodes) = 2
  /\ nodes[1].text # nodes[2].text
  /\ Len(nodes[DocButton].handlers) = 1
  /\ Len(overlays) = 1

\* C12: an overlay leaves the document only in a step that delivers a
\* transition-completion event after its fade-out timer has fired; the
\* fade-out timer itself, and a completion event delivered before the
\* fade-out started, leave it in the document.
C12_RemovedOnlyAfterFadeOutEnds ==
  [][\A i \in 1..Len(overlays) :
       /\ (overlays[i].attached /\ ~overlays'[i].attached) =>
            /\ ~overlays[i].fadeOut
            /\ overlays[i].opacity = 0
            /\ overlays[i].transition # "none"
            /\ overlays'[i].transition = "none"
       /\ (overlays[i].fadeOut /\ overlays[i].attached) => overlays'[i].attached
       /\ ~overlays[i].attached => ~overlays'[i].attached]_vars

C12_Witness ==
  \E i \in 1..Len(overlays) :
    /\ ~overlays[i].attached
    /\ overlays[i].listeners = 1
    /\ overlays[i].opacity = 0
    /\ ~overlays[i].fadeOut

\* C13: with timers that fire and transition-completion events that are
\* delivered, every overlay that was created is eventually out of the
\* document, and again and again no overlay is in the document.
C13_EveryOverlayRemoved ==
  /\ \A i \in 1..MaxOverlays :
       (Len(overlays) >= i) ~> (Len(overlays) >= i /\ ~overlays[i].attached)
  /\ []<>(\A i \in 1..Len(overlays) : ~overlays[i].attached)

C13_Witness ==
  /\ Len(overlays) = MaxOverlays
  /\ \A i \in 1..Len(overlays) : ~overlays[i].attached /\ ~overlays[i].fadeOut

\* C14: every call of showTemporaryMessage appends its own overlay and leaves
\* the others as they are, and a timer or transition-completion step changes
\* exactly one overlay.
C14_OverlaysIndependent ==
  [][/\ Len(overlays') >= Len(overlays)
     /\ Len(overlays') > Len(overlays) =>
          /\ SubSeq(overlays', 1, Len(overlays)) = overlays
          /\ \A k \in (Len(overlays) + 1)..Len(overlays') :
               overlays'[k].attached /\ overlays'[k].opacity = 0
     /\ (Len(overlays') = Len(overlays) /\ overlays' # overlays) =>
          \E i \in 1..Len(overlays) :
            /\ \A j \in 1..Len(overlays) : j # i => overlays'[j] = overlays[j]
            /\ overlays'[i].text = overlays[i].text]_vars

C14_Witness ==
  /\ Len(overlays) >= 2
  /\ overlays[1].attached /\ overlays[2].attached
  /\ ~overlays[1].fadeOut /\ overlays[1].opacity = 0
  /\ overlays[2].fadeOut /\ overlays[2].opacity = 1

\* C15: after a render the title target shows data.title when that is
\* non-empty and otherwise the default title, with a warning (also for the
\* empty string); the description target follows the same rule from
\* data.description; each outcome is a function of its own field only.
C15_TitleAndDescriptionIndependent ==
  renderCalls >= 1 =>
    /\ page.title =>
         IF Truthy(lastRender.data.title)
           THEN titleText = lastRender.data.title.s
                  /\ "title" \notin lastRender.warned
           ELSE titleText = DefaultTitle /\ "title" \in lastRender.warned
    /\ page.description =>
         IF Truthy(lastRender.data.description)
           THEN descText = lastRender.data.description.s
                  /\ "description" \notin lastRender.warned
           ELSE descText = DefaultDescription
                  /\ "description" \in lastRender.warned

C15_Witness ==
  /\ AllTargets
  /\ lastRender.data.title = EmptyString
  /\ titleText = DefaultTitle
  /\ lastRender.warned = {"title"}
  /\ descText = <<"D">>
  /\ Truthy(lastRender.data.buttonText)
  /\ lastRender.threw

\* C16: on a page that lacks one or more of the three targets every render
\* completes, warns for a missing title or description, and brings each
\* target that exists to the state its payload asks for.
C16_MissingTargetNonFatal ==
  (~AllTargets /\ renderCalls >= 1) =>
    /\ ~lastRender.threw
    /\ ~page.title => "title" \in lastRender.warned
    /\ ~page.description => "description" \in lastRender.warned
    /\ page.title =>
         titleText = IF Truthy(lastRender.data.title)
                       THEN lastRender.data.title.s ELSE DefaultTitle
    /\ page.description =>
         descText = IF Truthy(lastRender.data.description)
                      THEN lastRender.data.description.s
                      ELSE DefaultDescription
    /\ page.button =>
         IF Truthy(lastRender.data.buttonText)
           THEN /\ nodes[DocButton].text = lastRender.data.buttonText.s
                /\ nodes[DocButton].display = "block"
           ELSE nodes[DocButton].display = "none"

\* C17: a render whose buttonText is empty or absent replaces no button node
\* and leaves the listeners of every button node as they were.
C17_HideKeepsHandlers ==
  [][(renderCalls' = renderCalls + 1 /\ ~Truthy(lastRender'.data.buttonText))
     => /\ Len(nodes') = Len(nodes)
        /\ DocButton' = DocButton
        /\ \A i \in 1..Len(nodes) :
             /\ nodes'[i].handlers = nodes[i].handlers
             /\ nodes'[i].parent = nodes[i].parent
             /\ nodes'[i].text = nodes[i].text]_vars

C17_Witness ==
  /\ renderCalls >= 2
  /\ ~Truthy(lastRender.data.buttonText)
  /\ Len(nodes) = 2
  /\ nodes[1].display = "none"
  /\ Len(nodes[DocButton].handlers) = 1

\* C18 as stated: the identifier passed to the content source is the value of
\* the block-identifier attribute whenever the attribute is present, and the
\* default identifier only when it is absent.
C18_AttributeAlwaysUsed ==
  fetch.calls > 0 =>
    /\ page.attr # Undefined => fetch.blockId = page.attr
    /\ page.attr = Undefined => fetch.blockId = DefaultBlockId

\* C18 as amended: the identifier passed to the content source is the value
\* of the block-identifier attribute whenever the attribute is present and
\* non-empty, and the default identifier when it is absent or empty.
C18_NonEmptyAttributeUsed ==
  fetch.calls > 0 =>
    /\ Truthy(page.attr) => fetch.blockId = page.attr
    /\ ~Truthy(page.attr) => fetch.blockId = DefaultBlockId

C18_Witness ==
  /\ fetch.calls = 1
  /\ page.attr = Lit("contact-promo-block")
  /\ fetch.blockId = page.attr
  /\ fetch.state = "resolved"
  /\ fetch.value = mockContentData["contact-promo-block"]

\* C19: the button node render reads and mutates, the reference captured at
\* start-up, is the button node attached to the document.
C19_CapturedButtonIsDisplayed ==
  page.button =>
    /\ DocButton = blockButtonElement
    /\ nodes[blockButtonElement].parent

\* C20: whenever the button in the document has a click listener, the text it
\* shows is the buttonText the notification of a click names.
C20_ButtonTextMatchesNotification ==
  (DocButton # 0 /\ nodes[DocButton].handlers # <<>>) =>
    /\ ClickTexts =
         <<(<<"Action: \"">> \o nodes[DocButton].text \o <<"\" clicked!">>)>>
    /\ nodes[DocButton].text = nodes[DocButton].handlers[1].buttonText.s

C20_Witness ==
  /\ renderCalls >= 2
  /\ lastRender.threw
  /\ nodes[DocButton].text = <<"B1">>
  /\ nodes[blockButtonElement].text = <<"B2">>
  /\ Len(overlays) = 1
  /\ overlays[1].text = <<"Action: \"", "B1", "\" clicked!">>

====
